---------------------------- MODULE Spec2Model ----------------------------
(***************************************************************************)
(* examples/data/abc207_b.solver.cpp: solve(A, B, C, D) and the main that  *)
(* reads four integers, calls solve once and prints the result.            *)
(*                                                                         *)
(* int64_t is modelled as a signed integer of W bits.  Signed overflow and *)
(* division by zero are undefined behaviour: the model raises ub and lets  *)
(* the value the function leaves in ans be any W-bit value.                *)
(***************************************************************************)
EXTENDS Integers, Sequences, FiniteSets

\* Width of the signed integer type standing for int64_t.
W == 4
\* Range the input B is drawn from: -MaxB..MaxB.
MaxB == 4
\* Range the inputs C and D are drawn from: -MaxCD..MaxCD.
MaxCD == 3
\* Repeated calls: A is drawn from -MaxCall..MaxCall (and IntMax), C from
\* 0..MaxCall.
MaxCall == 1

VARIABLES
    pc,         \* position of the single thread of control
    A, B, C, D, \* main's locals, passed by value to solve
    ans,        \* solve's local ans
    ans_main,   \* main's (the caller's) ans, the value solve returned
    ub,         \* undefined behaviour has happened in this execution
    divided,    \* the division of line 12 was executed in the current call
    divisor,    \* the divisor it was executed with
    wellFormed, \* standard input held four parseable integers
    trace,      \* the observable steps of main so far
    out,        \* the characters written to standard output
    exitCode,   \* <<>> while running, <<c>> once main returned c
    probe,      \* repeated calls: the arguments whose results are compared
    first,      \* repeated calls: <<>>, or <<r>>, r the first result for probe
    stage       \* repeated calls: 0 probe not yet called, 1 probe returned,
                \* 2 another call returned since, 3 probe returned again

vars == <<pc, A, B, C, D, ans, ans_main, ub, divided, divisor, wellFormed,
          trace, out, exitCode, probe, first, stage>>

---------------------------------------------------------------------------
\* int64_t, scaled to W bits.

IntMin == -(2 ^ (W - 1))

IntMax == (2 ^ (W - 1)) - 1

IntRange == IntMin .. IntMax

Fits(x) == IntMin <= x /\ x <= IntMax

Abs(x) == IF x < 0 THEN -x ELSE x

\* A quotient rounded toward minus infinity: what `/` would be if it floored.
FloorDiv(a, b) == IF b > 0 THEN a \div b ELSE (-a) \div (-b)

\* C++ operator/ on integers: the quotient truncated toward zero (b # 0).
TruncDiv(a, b) ==
    IF (a >= 0) = (b > 0) THEN Abs(a) \div Abs(b) ELSE -(Abs(a) \div Abs(b))

---------------------------------------------------------------------------
\* solve (lines 9-15)

\* `if (D*C - B)`: the test with the comparison dropped.
CondNonZero(d) == d # 0

\* `if (D*C - B >= 0)`: the test off by one.
CondNonNeg(d) == d >= 0

\* line 11: the test D*C - B > 0
CondHolds(d) == d > 0

\* The values line 11 evaluates, in evaluation order: D*C, then D*C - B.
CondSteps(b, c, d) == <<d * c, d * c - b>>

\* `A + D * C - B`: the numerator without the trailing - 1.
NumStepsNoMinusOne(a, b, c, d) == <<a + d * c, a + d * c - b>>

\* `A / (D*C - B)`: the numerator without the rounding term.
NumStepsFloor(a, b, c, d) == <<a>>

\* `A - B + D * C - 1`: the same sum with the terms in another order.
NumStepsReordered(a, b, c, d) == <<a - b, a - b + d * c, a - b + d * c - 1>>

\* The values the numerator of line 12 evaluates, left to right:
\* A + D*C, then (A + D*C) - B, then ((A + D*C) - B) - 1.
NumSteps(a, b, c, d) == <<a + d * c, a + d * c - b, a + d * c - b - 1>>

AllFit(s) == \A i \in 1 .. Len(s) : Fits(s[i])

Last(s) == s[Len(s)]

\* `static int64_t ans = -1;`: ans keeps the value the previous call left.
EnterSolveStatic == ans' = ans /\ divided' = FALSE /\ divisor' = 0

\* line 10: int64_t ans = -1;  (a fresh local in every call)
EnterSolve == ans' = -1 /\ divided' = FALSE /\ divisor' = 0

\* line 11
Cond ==
    /\ pc = "cond"
    /\ IF AllFit(CondSteps(B, C, D))
       THEN /\ pc' = IF CondHolds(CondSteps(B, C, D)[2]) THEN "div" ELSE "ret"
            /\ UNCHANGED <<ans, ub>>
       ELSE /\ pc' = "ret"
            /\ ub' = TRUE
            /\ ans' \in IntRange
    /\ UNCHANGED <<A, B, C, D, ans_main, divided, divisor, wellFormed, trace,
                   out, exitCode, probe, first, stage>>

\* line 12
Div ==
    /\ pc = "div"
    /\ pc' = "ret"
    /\ IF ~AllFit(NumSteps(A, B, C, D))
       THEN /\ ub' = TRUE
            /\ ans' \in IntRange
            /\ UNCHANGED <<divided, divisor>>
       ELSE /\ divided' = TRUE
            /\ divisor' = CondSteps(B, C, D)[2]
            /\ IF CondSteps(B, C, D)[2] = 0
               THEN ub' = TRUE /\ ans' \in IntRange
               ELSE /\ ans' = TruncDiv(Last(NumSteps(A, B, C, D)),
                                       CondSteps(B, C, D)[2])
                    /\ UNCHANGED ub
    /\ UNCHANGED <<A, B, C, D, ans_main, wellFormed, trace, out, exitCode,
                   probe, first, stage>>

---------------------------------------------------------------------------
\* operator<< on an integer: its decimal representation.

DigitChars == <<"0", "1", "2", "3", "4", "5", "6", "7", "8", "9">>

RECURSIVE NatToDec(_)
NatToDec(n) ==
    IF n < 10 THEN <<DigitChars[n + 1]>>
    ELSE NatToDec(n \div 10) \o <<DigitChars[(n % 10) + 1]>>

ToDecimal(n) == IF n < 0 THEN <<"-">> \o NatToDec(-n) ELSE NatToDec(n)

---------------------------------------------------------------------------
\* main (lines 18-26)

InputB == (-MaxB) .. MaxB

InputCD == (-MaxCD) .. MaxCD

\* line 22: std::cin >> A >> B >> C >> D.  No stream state is tested: on
\* input that is not four integers the program goes on with values it did
\* not read.
Read ==
    /\ pc = "start"
    /\ pc' = "call"
    /\ wellFormed' \in BOOLEAN
    /\ A' \in IntRange
    /\ B' \in InputB
    /\ C' \in InputCD
    /\ D' \in InputCD
    /\ trace' = Append(trace, "read")
    /\ UNCHANGED <<ans, ans_main, ub, divided, divisor, out, exitCode, probe,
                   first, stage>>

\* line 23, the call: solve(A, B, C, D).  Passing a variable the failed read
\* left indeterminate is undefined behaviour.
Call ==
    /\ pc = "call"
    /\ pc' = "cond"
    /\ EnterSolve
    /\ ub' = (ub \/ ~wellFormed)
    /\ trace' = Append(trace, "solve")
    /\ UNCHANGED <<A, B, C, D, ans_main, wellFormed, out, exitCode, probe,
                   first, stage>>

\* line 14 and line 23, the return: auto ans = solve(...)
Return ==
    /\ pc = "ret"
    /\ pc' = "write"
    /\ ans_main' = ans
    /\ UNCHANGED <<A, B, C, D, ans, ub, divided, divisor, wellFormed, trace,
                   out, exitCode, probe, first, stage>>

\* line 24 with the stream left unwritten.
WriteNothing ==
    /\ pc = "write"
    /\ pc' = "exit"
    /\ trace' = Append(trace, "write")
    /\ UNCHANGED <<A, B, C, D, ans, ans_main, ub, divided, divisor,
                   wellFormed, out, exitCode, probe, first, stage>>

\* line 24: std::cout << ans << '\n';
Write ==
    /\ pc = "write"
    /\ pc' = "exit"
    /\ out' = out \o ToDecimal(ans_main) \o <<"\n">>
    /\ trace' = Append(trace, "write")
    /\ UNCHANGED <<A, B, C, D, ans, ans_main, ub, divided, divisor,
                   wellFormed, exitCode, probe, first, stage>>

\* line 25: return 0;
Exit ==
    /\ pc = "exit"
    /\ pc' = "done"
    /\ exitCode' = <<0>>
    /\ trace' = Append(trace, "exit")
    /\ UNCHANGED <<A, B, C, D, ans, ans_main, ub, divided, divisor,
                   wellFormed, out, probe, first, stage>>

\* The state at entry to main.  A, B, C, D, ans, ans_main and divisor do not
\* exist or are not read before they are assigned; 0 stands for that.
Init ==
    /\ pc = "start"
    /\ A = 0 /\ B = 0 /\ C = 0 /\ D = 0
    /\ ans = 0
    /\ ans_main = 0
    /\ ub = FALSE
    /\ divided = FALSE
    /\ divisor = 0
    /\ wellFormed = TRUE
    /\ trace = <<>>
    /\ out = <<>>
    /\ exitCode = <<>>
    /\ probe = <<0, 0, 0, 0>>
    /\ first = <<>>
    /\ stage = 0

Next == Read \/ Call \/ Cond \/ Div \/ Return \/ Write \/ Exit

Spec == Init /\ [][Next]_vars

---------------------------------------------------------------------------
\* solve called repeatedly by one caller: every call passes four values and
\* receives the returned value; nothing else is shared between the calls.

CallA == ((-MaxCall) .. MaxCall) \cup {IntMax}

CallB == {0, 2}

CallC == 0 .. MaxCall

CallD == {1, 2}

CallArgs == CallA \X CallB \X CallC \X CallD

\* line 9: a call solve(a, b, c, d) binds the parameters; line 10 follows.
\* An execution in which undefined behaviour happened is not continued.
Invoke ==
    /\ pc = "idle"
    /\ ~ub
    /\ pc' = "cond"
    /\ \E t \in CallArgs : A' = t[1] /\ B' = t[2] /\ C' = t[3] /\ D' = t[4]
    /\ EnterSolve
    /\ UNCHANGED <<ans_main, ub, wellFormed, trace, out, exitCode, probe,
                   first, stage>>

\* line 14: return ans; the caller keeps the value, and the first value
\* returned for the arguments probe is remembered.
CallReturn ==
    /\ pc = "ret"
    /\ pc' = "idle"
    /\ ans_main' = ans
    /\ first' = IF first = <<>> /\ <<A, B, C, D>> = probe
                THEN <<ans>> ELSE first
    /\ stage' = IF <<A, B, C, D>> = probe
                THEN (IF stage = 0 THEN 1 ELSE IF stage = 2 THEN 3 ELSE stage)
                ELSE (IF stage = 1 THEN 2 ELSE stage)
    /\ UNCHANGED <<A, B, C, D, ans, ub, divided, divisor, wellFormed, trace,
                   out, exitCode, probe>>

CallsInit ==
    /\ pc = "idle"
    /\ A = 0 /\ B = 0 /\ C = 0 /\ D = 0
    /\ ans = 0
    /\ ans_main = 0
    /\ ub = FALSE
    /\ divided = FALSE
    /\ divisor = 0
    /\ wellFormed = TRUE
    /\ trace = <<>>
    /\ out = <<>>
    /\ exitCode = <<>>
    /\ probe \in CallArgs
    /\ first = <<>>
    /\ stage = 0

CallsNext == Invoke \/ Cond \/ Div \/ CallReturn

CallsSpec == CallsInit /\ [][CallsNext]_vars

---------------------------------------------------------------------------
\* What the claims speak of.

\* D*C - B over the unbounded integers.
Denom == D * C - B

\* main holds the value solve returned for A, B, C, D.
Returned == pc \in {"write", "exit", "done"}

\* solve returned in an execution whose behaviour is defined.
ReturnedDefined == Returned /\ ~ub

\* q is the quotient n / d truncated toward zero, stated without division.
IsTruncQuot(q, n, d) ==
    /\ Abs(n - q * d) < Abs(d)
    /\ n >= 0 => (0 <= q * d /\ q * d <= n)
    /\ n <= 0 => (n <= q * d /\ q * d <= 0)

\* r is what solve computes over the unbounded integers.
IsMathResult(r) ==
    IF Denom > 0 THEN IsTruncQuot(r, A + D * C - B - 1, Denom) ELSE r = -1

RECURSIVE DecToNat(_)
DecToNat(s) ==
    IF s = <<>> THEN 0
    ELSE 10 * DecToNat(SubSeq(s, 1, Len(s) - 1))
         + (CHOOSE i \in 0 .. 9 : DigitChars[i + 1] = Last(s))

IsDigits(s) ==
    /\ Len(s) >= 1
    /\ \A i \in 1 .. Len(s) : \E k \in 1 .. 10 : DigitChars[k] = s[i]

\* text is exactly one line, the decimal representation of n and a newline.
IsLineOf(text, n) ==
    /\ Len(text) >= 2
    /\ text[Len(text)] = "\n"
    /\ \A i \in 1 .. (Len(text) - 1) : text[i] # "\n"
    /\ LET body == SubSeq(text, 1, Len(text) - 1)
       IN  IF body[1] = "-"
           THEN /\ IsDigits(Tail(body))
                /\ n < 0
                /\ DecToNat(Tail(body)) = -n
           ELSE /\ IsDigits(body)
                /\ DecToNat(body) = n

MainOrder == <<"read", "solve", "write", "exit">>

---------------------------------------------------------------------------
\* C1, as stated: whenever D*C - B > 0, negative A included, the returned
\* value q satisfies (q - 1) * (D*C - B) < A, so that q is the smallest
\* integer with q * (D*C - B) >= A.
C1_MinimalForEveryA ==
    (ReturnedDefined /\ Denom > 0) => (ans_main - 1) * Denom < A

\* C1, amended: whenever D*C - B > 0, the returned value q satisfies
\* (q - 1) * (D*C - B) < A exactly when A + D*C - B - 1 >= 0 (every A >= 0
\* is such) or D*C - B divides A - 1; for the other negative A the
\* truncating division rounds up and q - 1 is the smallest such integer.
C1_MinimalUnlessRoundedUp ==
    (ReturnedDefined /\ Denom > 0) =>
        /\ ((ans_main - 1) * Denom < A)
               <=> (A + Denom - 1 >= 0 \/ (A - 1) % Denom = 0)
        /\ (ans_main - 1) * Denom >= A => (ans_main - 2) * Denom < A

C1_Witness ==
    /\ ReturnedDefined /\ Denom = 3 /\ A = -4
    /\ ans_main = 0

\* C2: whenever D*C - B > 0, the returned value q satisfies
\* q * (D*C - B) >= A.
C2_Sufficient ==
    (ReturnedDefined /\ Denom > 0) => ans_main * Denom >= A

C2_Witness ==
    /\ ReturnedDefined /\ Denom = 2 /\ A = 5
    /\ ans_main * Denom > A

\* C3: whenever D*C - B <= 0, the boundary D*C - B = 0 included, solve
\* returns -1 whatever A is.
C3_NotPositiveGivesMinusOne ==
    (ReturnedDefined /\ Denom <= 0) => ans_main = -1

C3_Witness ==
    /\ ReturnedDefined /\ Denom = 0 /\ A = 1
    /\ ans_main = -1

\* C4, as stated: for every A, B, C, D with D*C - B > 0 the computed result
\* differs from -1, so that -1 is returned only when D*C - B <= 0.
C4_MinusOneOnlyWhenNotPositive ==
    (ReturnedDefined /\ ans_main = -1) => Denom <= 0

\* C4, amended: for D*C - B > 0 the computed result is -1 exactly when
\* -3*(D*C - B) + 1 < A <= -2*(D*C - B) + 1; for every A >= 0 it differs
\* from -1, and only there does a returned -1 mean D*C - B <= 0.
C4_MinusOneOnlyForSomeNegativeA ==
    (ReturnedDefined /\ Denom > 0) =>
        /\ (ans_main = -1) <=> (-3 * Denom + 1 < A /\ A <= -2 * Denom + 1)
        /\ A >= 0 => ans_main # -1

C4_Witness ==
    /\ ReturnedDefined /\ Denom = 2 /\ A = 3
    /\ ans_main = 2

\* C5, as stated: whenever D*C, D*C - B and A + D*C - B - 1 fit the signed
\* width, no step solve evaluates leaves the range and the result is the
\* one obtained over the unbounded integers.
C5_ThreeValuesFit ==
    (Returned /\ wellFormed /\ Fits(D * C) /\ Fits(D * C - B)
        /\ Fits(A + D * C - B - 1))
    => (~ub /\ IsMathResult(ans_main))

\* C5, amended: whenever the five values D*C, D*C - B, A + D*C,
\* A + D*C - B and A + D*C - B - 1 fit the signed width, no step solve
\* evaluates leaves the range and the result is the one obtained over the
\* unbounded integers.
C5_EveryStepFits ==
    (Returned /\ wellFormed /\ Fits(D * C) /\ Fits(D * C - B)
        /\ Fits(A + D * C) /\ Fits(A + D * C - B)
        /\ Fits(A + D * C - B - 1))
    => (~ub /\ IsMathResult(ans_main))

C5_Witness ==
    /\ Returned /\ wellFormed /\ ~ub
    /\ A = IntMax - 2 /\ D * C = 2 /\ B = 1
    /\ ans_main = IntMax - 2

\* C6: on well-formed input main reads once, then calls solve once, then
\* writes once, one line holding the value solve returned, then ends with
\* exit code 0: nothing is written before the read or before the call,
\* nothing is read or written after the write, and until it has ended the
\* program can always take its next step.
C6_ReadSolveWriteExit ==
    wellFormed =>
        /\ Len(trace) <= 4
        /\ trace = SubSeq(MainOrder, 1, Len(trace))
        /\ Len(trace) < 3 => out = <<>>
        /\ Len(trace) >= 3 => (IsLineOf(out, ans_main) /\ ans_main = ans)
        /\ pc = "done" => (trace = MainOrder /\ exitCode = <<0>>)
        /\ pc # "done" => (exitCode = <<>> /\ ENABLED Next)

C6_Witness ==
    /\ wellFormed /\ pc = "done" /\ ~ub
    /\ trace = MainOrder
    /\ ans_main = -1
    /\ out = <<"-", "1", "\n">>
    /\ exitCode = <<0>>

\* C7: solve keeps nothing from one call to the next: a call with the same
\* (A, B, C, D) as an earlier call, whatever calls came between, returns
\* the value the earlier call returned.
C7_SameArgumentsSameResult ==
    (pc = "idle" /\ ~ub /\ first # <<>> /\ <<A, B, C, D>> = probe)
    => ans_main = first[1]

C7_Witness ==
    /\ pc = "idle" /\ ~ub /\ stage = 3
    /\ <<A, B, C, D>> = probe
    /\ Denom <= 0
    /\ first = <<-1>>

\* C8: whenever denom = D*C - B > 0, the returned value is the quotient of
\* A + denom - 1 by denom truncated toward zero.
C8_IsReferenceQuotient ==
    (ReturnedDefined /\ Denom > 0) =>
        IsTruncQuot(ans_main, A + Denom - 1, Denom)

C8_Witness ==
    /\ ReturnedDefined /\ Denom = 2 /\ A = -4
    /\ ans_main = -1

\* C9: the division of line 12 is executed only with a divisor D*C - B
\* that is strictly positive, and is not executed when D*C - B <= 0.
C9_DivisorPositive ==
    /\ (pc = "div" \/ divided) => (Fits(Denom) /\ Denom > 0)
    /\ divided => divisor = Denom
    /\ (pc \in {"ret", "write", "exit", "done"} /\ ~ub /\ Denom <= 0)
           => ~divided

C9_Witness ==
    /\ pc = "ret" /\ divided /\ divisor = 1
    /\ A = 3 /\ ans = 3

\* C10: whenever A >= 0 and D*C - B > 0 the returned value is 0 when A = 0
\* and at least 1 when A >= 1, so that a returned -1 with A >= 0 means
\* D*C - B <= 0.
C10_NonNegativeOnNonNegativeA ==
    (ReturnedDefined /\ A >= 0) =>
        /\ Denom > 0 => /\ ans_main >= 0
                        /\ (ans_main = 0) <=> (A = 0)
                        /\ A >= 1 => ans_main >= 1
        /\ ans_main = -1 => Denom <= 0

C10_Witness ==
    /\ ReturnedDefined /\ A = 0 /\ Denom = 1
    /\ ans_main = 0

===========================================================================
